---- MODULE Spec2Model ----
(***************************************************************************)
(* QuantConnectValidator (src/quantcli/qc_validator.py): a line-oriented   *)
(* heuristic validator of generated algorithm code.  A Python str is a     *)
(* sequence of one-character strings; a list is a sequence; a finding      *)
(* (ValidationIssue) is a record of severity, line, message, suggestion.   *)
(***************************************************************************)
EXTENDS Integers, Sequences, FiniteSets

VARIABLES
    code,      \* the text passed to the running (or last) validate call
    lines,     \* validate's local list: code.split('\n')
    issues,    \* self.issues of the validator instance
    pc,        \* position of the validate call
    ret,       \* the list the last completed validate call returned
    raised,    \* the exception that left the last validate call, or "none"
    repeat,    \* the running call validates the same text as the call before it
    prevRet,   \* when repeat: the list that previous call returned
    report,    \* the str the last format_report call returned
    \* validator instances called from two threads
    heap,        \* the list objects created so far, by identity
    self_issues, \* per instance: the list object self.issues is bound to
    inst,        \* per thread: the instance whose validate it calls
    tpc,         \* per thread: position of its validate call
    tcode,       \* per thread: the text it validates
    tlines,      \* per thread: validate's local list of lines
    tk,          \* per thread: the line its running check loop is at
    tret,        \* per thread: the list object its call returned (0: none yet)
    overlapped   \* per thread: the other thread's call ran during its call

threadVars == <<heap, self_issues, inst, tpc, tcode, tlines, tk, tret, overlapped>>

VARIABLES
    \* LLMClient (src/quantcli/llm_client.py) and what surrounds it
    envKey,       \* os.getenv('OPENAI_API_KEY'): None or a str
    sdkInstalled, \* whether `from openai import OpenAI` succeeds
    argKey,       \* the api_key argument of LLMClient(...): None or a str
    selfKey,      \* self.api_key
    openaiCalls,  \* the api_key of every OpenAI(api_key=...) call made
    initRaised,   \* the exception that left __init__, or "none"
    lpc,          \* "start", then "ready" (constructed) or "failed"
    lastCall,     \* the method called last: "chat", "prompt" or "none"
    lastKw,       \* the kind of **kwargs of that call
    lastApi,      \* how the API behaved in that call: "raise" or its response
    apiCalls,     \* the times that call invoked chat.completions.create
    chatRaised,   \* the exception that left chat_completion, or "none"
    chatResult,   \* what chat_completion returned: None or an LLMResponse
    promptResult  \* what simple_prompt returned: None or a str

llmVars == <<envKey, sdkInstalled, argKey, selfKey, openaiCalls, initRaised, lpc,
             lastCall, lastKw, lastApi, apiCalls, chatRaised, chatResult,
             promptResult>>

\* the variables no validate step of the serially called instance writes
others == <<report, threadVars, llmVars>>

vars == <<code, lines, issues, pc, ret, raised, repeat, prevRet, others>>

----------------------------------------------------------------------------
(* String literals of the source, as character sequences.                  *)
(* The two non-ASCII code points of the report are the atoms "U+2705" and  *)
(* "U+2192".                                                               *)

\* guards and exemptions of _check_division_operations
S_if ==
    <<"i","f">>
S_gt0 ==
    <<">"," ","0">>
S_le0 ==
    <<"<","="," ","0">>
S_positionSize ==
    <<"p","o","s","i","t","i","o","n","S","i","z","e">>
S_Portfolio ==
    <<"P","o","r","t","f","o","l","i","o">>

\* _check_max_min_operations
S_max ==
    <<"m","a","x">>
S_min ==
    <<"m","i","n">>
S_indicators ==
    <<"i","n","d","i","c","a","t","o","r","s","[">>
S_self ==
    <<"s","e","l","f",".">>
S_isNone ==
    <<"i","s"," ","N","o","n","e">>
S_isNotNone ==
    <<"i","s"," ","n","o","t"," ","N","o","n","e">>

\* _check_indicator_usage
S_CurrentValue ==
    <<".","C","u","r","r","e","n","t",".","V","a","l","u","e">>
S_IsReady ==
    <<".","I","s","R","e","a","d","y">>

\* _check_none_comparisons
S_high ==
    <<"i","n","d","i","c","a","t","o","r","s","[","\"","h","i","g","h","\"","]">>
S_low ==
    <<"i","n","d","i","c","a","t","o","r","s","[","\"","l","o","w","\"","]">>
S_ge ==
    <<">","=">>
S_le ==
    <<"<","=">>
S_eq ==
    <<"=","=">>
S_ne ==
    <<"!","=">>

\* _check_portfolio_access
S_selfPortfolio ==
    <<"s","e","l","f",".","P","o","r","t","f","o","l","i","o","[">>
S_Invested ==
    <<"I","n","v","e","s","t","e","d">>

\* messages and suggestions of the findings
M_DivA ==
    <<"D","i","v","i","s","i","o","n"," ","b","y"," ","'">>
M_DivB ==
    <<"'"," ","w","i","t","h","o","u","t"," ","z","e","r","o"," ","c","h","e","c","k">>
M_SugA ==
    <<"A","d","d"," ","c","h","e","c","k",":"," ","i","f"," ">>
M_SugB ==
    <<" ","<","="," ","0",":"," ","c","o","n","t","i","n","u","e">>
M_MaxMin ==
    <<"m","a","x","/","m","i","n"," ","o","p","e","r","a","t","i","o","n"," ","o","n"," ","p","o","t","e","n","t","i","a","l","l","y"," ","N","o","n","e"," ","v","a","l","u","e">>
M_MaxMinSug ==
    <<"A","d","d"," ","N","o","n","e"," ","c","h","e","c","k"," ","b","e","f","o","r","e"," ","m","a","x","/","m","i","n"," ","o","p","e","r","a","t","i","o","n">>
M_Ind ==
    <<"I","n","d","i","c","a","t","o","r"," ","v","a","l","u","e"," ","u","s","e","d"," ","w","i","t","h","o","u","t"," ","I","s","R","e","a","d","y"," ","c","h","e","c","k">>
M_IndSug ==
    <<"A","d","d",":"," ","i","f"," ","n","o","t"," ","i","n","d","i","c","a","t","o","r",".","I","s","R","e","a","d","y",":"," ","c","o","n","t","i","n","u","e">>
M_Cmp ==
    <<"C","o","m","p","a","r","i","s","o","n"," ","w","i","t","h"," ","p","o","t","e","n","t","i","a","l","l","y"," ","N","o","n","e"," ","v","a","l","u","e">>
M_CmpSug ==
    <<"A","d","d"," ","N","o","n","e"," ","c","h","e","c","k"," ","b","e","f","o","r","e"," ","c","o","m","p","a","r","i","s","o","n">>

\* format_report
R_NoIssues ==
    <<"U+2705"," ","N","o"," ","v","a","l","i","d","a","t","i","o","n"," ","i","s","s","u","e","s"," ","f","o","u","n","d">>
R_Found ==
    <<"F","o","u","n","d"," ">>
R_Issues ==
    <<" ","v","a","l","i","d","a","t","i","o","n"," ","i","s","s","u","e","s",":","\n","\n">>
R_Errors ==
    <<"E","R","R","O","R","S",":","\n">>
R_Warnings ==
    <<"W","A","R","N","I","N","G","S",":","\n">>
R_Line ==
    <<" "," ","L","i","n","e"," ">>
R_Colon ==
    <<":"," ">>
R_Arrow ==
    <<" "," "," "," ","U+2192"," ">>
R_NL ==
    <<"\n">>
R_NLNL ==
    <<"\n","\n">>

----------------------------------------------------------------------------
(* Python str, list and re primitives the checks use.                      *)

Min(S) == CHOOSE x \in S : \A y \in S : x <= y
Max(S) == CHOOSE x \in S : \A y \in S : y <= x

\* \w of re (ASCII part) and the whitespace of \s and str.strip()
WordChars ==
    {"a","b","c","d","e","f","g","h","i","j","k","l","m","n","o","p","q","r",
     "s","t","u","v","w","x","y","z",
     "A","B","C","D","E","F","G","H","I","J","K","L","M","N","O","P","Q","R",
     "S","T","U","V","W","X","Y","Z",
     "0","1","2","3","4","5","6","7","8","9","_"}
SpaceChars == {" ", "\t", "\n", "\r", "\f"}

IsWord(c) == c \in WordChars
IsSpace(c) == c \in SpaceChars

\* s[k:].startswith(p), k 1-based
StartsAt(s, p, k) ==
    /\ k + Len(p) - 1 <= Len(s)
    /\ \A m \in 1..Len(p) : s[k + m - 1] = p[m]

\* p in s
In(p, s) == \E k \in 1..(Len(s) - Len(p) + 1) : StartsAt(s, p, k)

\* s.split('\n')
RECURSIVE split(_)
split(s) ==
    LET nl == {k \in 1..Len(s) : s[k] = "\n"}
    IN  IF nl = {} THEN <<s>>
        ELSE <<SubSeq(s, 1, Min(nl) - 1)>> \o split(SubSeq(s, Min(nl) + 1, Len(s)))

\* line.strip().startswith('#')
IsCommentLine(line) ==
    LET ns == {k \in 1..Len(line) : ~IsSpace(line[k])}
    IN  ns # {} /\ line[Min(ns)] = "#"

\* where a greedy \s* starting at k stops, and where a greedy \w+ starting at q ends
SkipSpace(s, k) == Min({q \in k..(Len(s) + 1) : q > Len(s) \/ ~IsSpace(s[q])})
WordEnd(s, q) == Max({e \in q..Len(s) : \A m \in q..e : IsWord(s[m])})

\* \b before the character at index p
WordBoundary(s, p) ==
    (p <= Len(s) /\ IsWord(s[p])) # (p > 1 /\ IsWord(s[p - 1]))

\* re.search(r'/\s*(\w+)', line): None, or the leftmost match and its group 1
DivisorSearch(line) ==
    LET starts == {p \in 1..Len(line) :
                     /\ line[p] = "/"
                     /\ SkipSpace(line, p + 1) <= Len(line)
                     /\ IsWord(line[SkipSpace(line, p + 1)])}
    IN  IF starts = {} THEN [matched |-> FALSE, group1 |-> <<>>]
        ELSE LET q == SkipSpace(line, Min(starts) + 1)
             IN  [matched |-> TRUE, group1 |-> SubSeq(line, q, WordEnd(line, q))]

\* re.search(r'\b(max|min)\s*\(', line)
MaxMinSearch(line) ==
    \E p \in 1..Len(line) :
        /\ WordBoundary(line, p)
        /\ StartsAt(line, S_max, p) \/ StartsAt(line, S_min, p)
        /\ SkipSpace(line, p + 3) <= Len(line)
        /\ line[SkipSpace(line, p + 3)] = "("

\* re.search(r'(\w+)\.Current\.Value', line): None, or the leftmost match, its
\* \w+ as long as the rest of the pattern allows, and its group 1
IndicatorSearch(line) ==
    LET ends(p) == {e \in p..Len(line) :
                      /\ \A m \in p..e : IsWord(line[m])
                      /\ StartsAt(line, S_CurrentValue, e + 1)}
        starts == {p \in 1..Len(line) : ends(p) # {}}
    IN  IF starts = {} THEN [matched |-> FALSE, group1 |-> <<>>]
        ELSE [matched |-> TRUE,
              group1 |-> SubSeq(line, Min(starts), Max(ends(Min(starts))))]

\* re.search(r'(>|<|>=|<=|==|!=)', line)
ComparisonSearch(line) ==
    \E p \in 1..Len(line) :
        \/ line[p] = ">"
        \/ line[p] = "<"
        \/ StartsAt(line, S_ge, p)
        \/ StartsAt(line, S_le, p)
        \/ StartsAt(line, S_eq, p)
        \/ StartsAt(line, S_ne, p)

\* list[k] with Python's index rules: k in -len..len-1, negative from the end
ValidIndex(list, k) == -Len(list) <= k /\ k < Len(list)
PyPos(list, k) == IF k >= 0 THEN k + 1 ELSE Len(list) + k + 1
PyItem(list, k) == list[PyPos(list, k)]

----------------------------------------------------------------------------
(* The checks.  A loop body yields the findings it appends and the         *)
(* exception it raises, if any ("none" otherwise).                         *)

ValidationIssue(severity, line, message, suggestion) ==
    [severity |-> severity, line |-> line, message |-> message,
     suggestion |-> suggestion]

Nothing == [err |-> "none", out |-> <<>>]
Raises(e) == [err |-> e, out |-> <<>>]
Appends(f) == [err |-> "none", out |-> <<f>>]

\* the lookback windows written in the four guard scans
DivWindow == 5
MaxMinWindow == 5
IndWindow == 10
NoneWindow == 5

\* enumerate(lines): numbering from 0
LineNoFromZero(k) == k - 1
\* enumerate(lines, 1): the number i of the k-th line
LineNo(k) == k

\* i - w without the max(0, .)
RangeStartUnclamped(i, w) == i - w
\* max(0, i - w), the first j of a guard scan
RangeStart(i, w) == IF 0 >= i - w THEN 0 ELSE i - w

\* for j in range(max(0, i-w), i): if <guard in lines[j-1]>: has_guard = True; break
\* isGuard[m] says whether the m-th element of the list holds the guard pattern.
\* "guard" when a guard line stops the scan, "none" when the scan runs out,
\* "IndexError" when lines[j-1] is no element of the list
GuardScan(ls, i, w, isGuard) ==
    LET stops == {j \in RangeStart(i, w)..(i - 1) :
                    \/ ~ValidIndex(ls, j - 1)
                    \/ isGuard[PyPos(ls, j - 1)]}
    IN  IF stops = {} THEN "none"
        ELSE IF ~ValidIndex(ls, Min(stops) - 1) THEN "IndexError"
        ELSE "guard"

DivGuard(l) == In(S_if, l) /\ (In(S_gt0, l) \/ In(S_le0, l))
NoneGuard(l) == In(S_isNone, l) \/ In(S_isNotNone, l)

\* body of the loop of _check_division_operations for the k-th line
DivisionLine(ls, k) ==
    LET line == ls[k]
        i == LineNo(k)
    IN  IF In(<<"/">>, line) /\ ~In(<<"/", "/">>, line) /\ ~IsCommentLine(line)
        THEN LET g == GuardScan(ls, i, DivWindow, [m \in 1..Len(ls) |-> DivGuard(ls[m])])
             IN  IF g = "IndexError" THEN Raises(g)
                 ELSE IF g = "none" /\ ~In(S_positionSize, line)
                                    /\ ~In(S_Portfolio, line)
                 THEN LET match == DivisorSearch(line)
                      IN  IF match.matched
                          THEN Appends(ValidationIssue("warning", i,
                                   M_DivA \o match.group1 \o M_DivB,
                                   M_SugA \o match.group1 \o M_SugB))
                          ELSE Nothing
                 ELSE Nothing
        ELSE Nothing

\* body of the loop of _check_max_min_operations
MaxMinLine(ls, k) ==
    LET line == ls[k]
        i == LineNo(k)
    IN  IF MaxMinSearch(line) /\ (In(S_indicators, line) \/ In(S_self, line))
        THEN LET g == GuardScan(ls, i, MaxMinWindow, [m \in 1..Len(ls) |-> NoneGuard(ls[m])])
             IN  IF g = "IndexError" THEN Raises(g)
                 ELSE IF g = "none"
                 THEN Appends(ValidationIssue("error", i, M_MaxMin, M_MaxMinSug))
                 ELSE Nothing
        ELSE Nothing

\* body of the loop of _check_indicator_usage
IndicatorLine(ls, k) ==
    LET line == ls[k]
        i == LineNo(k)
    IN  IF IndicatorSearch(line).matched /\ ~IsCommentLine(line)
        THEN LET indicator_name == IndicatorSearch(line)
                 g == IF indicator_name.matched
                      THEN GuardScan(ls, i, IndWindow,
                               [m \in 1..Len(ls) |->
                                   In(indicator_name.group1 \o S_IsReady, ls[m])])
                      ELSE "none"
             IN  IF g = "IndexError" THEN Raises(g)
                 ELSE IF g = "none"
                 THEN Appends(ValidationIssue("error", i, M_Ind, M_IndSug))
                 ELSE Nothing
        ELSE Nothing

\* body of the loop of _check_none_comparisons; Python reads
\* `not has_guard and A or B` as `((not has_guard) and A) or B`
NoneComparisonLine(ls, k) ==
    LET line == ls[k]
        i == LineNo(k)
    IN  IF /\ ComparisonSearch(line)
           /\ In(S_indicators, line) \/ In(S_self, line)
           /\ ~In(S_isNone, line) /\ ~In(S_isNotNone, line)
        THEN LET g == GuardScan(ls, i, NoneWindow, [m \in 1..Len(ls) |-> NoneGuard(ls[m])])
             IN  IF g = "IndexError" THEN Raises(g)
                 ELSE IF (g = "none" /\ In(S_high, line)) \/ In(S_low, line)
                 THEN Appends(ValidationIssue("error", i, M_Cmp, M_CmpSug))
                 ELSE Nothing
        ELSE Nothing

\* the loop body recording the access as an informational finding
PortfolioLineInfo(ls, k) ==
    IF In(S_selfPortfolio, ls[k]) /\ ~In(S_Invested, ls[k])
    THEN Appends(ValidationIssue("info", LineNo(k), S_selfPortfolio, S_Invested))
    ELSE Nothing

\* body of the loop of _check_portfolio_access: `pass` on either branch
PortfolioLine(ls, k) ==
    LET line == ls[k]
    IN  IF In(S_selfPortfolio, line) /\ ~In(S_Invested, line)
        THEN Nothing
        ELSE Nothing

RECURSIVE Flatten(_)
Flatten(ss) == IF ss = <<>> THEN <<>> ELSE Head(ss) \o Flatten(Tail(ss))

RECURSIVE FlattenPrepending(_)
FlattenPrepending(ss) ==
    IF ss = <<>> THEN <<>> ELSE FlattenPrepending(Tail(ss)) \o Head(ss)

\* the loop with self.issues.insert(0, ...) in place of self.issues.append(...)
ForEachLinePrepending(per) ==
    LET bad == {k \in DOMAIN per : per[k].err # "none"}
        last == IF bad = {} THEN Len(per) ELSE Min(bad) - 1
    IN  [err |-> IF bad = {} THEN "none" ELSE per[Min(bad)].err,
         out |-> FlattenPrepending([k \in 1..last |-> per[k].out])]

\* `for i, line in enumerate(lines, 1)`: the bodies run in line order and
\* the loop ends at the first body that raises
ForEachLine(per) ==
    LET bad == {k \in DOMAIN per : per[k].err # "none"}
        last == IF bad = {} THEN Len(per) ELSE Min(bad) - 1
    IN  [err |-> IF bad = {} THEN "none" ELSE per[Min(bad)].err,
         out |-> Flatten([k \in 1..last |-> per[k].out])]

check_division_operations(ls) ==
    ForEachLine([k \in 1..Len(ls) |-> DivisionLine(ls, k)])
check_max_min_operations(ls) ==
    ForEachLine([k \in 1..Len(ls) |-> MaxMinLine(ls, k)])
check_indicator_usage(ls) ==
    ForEachLine([k \in 1..Len(ls) |-> IndicatorLine(ls, k)])
check_none_comparisons(ls) ==
    ForEachLine([k \in 1..Len(ls) |-> NoneComparisonLine(ls, k)])
check_portfolio_access(ls) ==
    ForEachLine([k \in 1..Len(ls) |-> PortfolioLine(ls, k)])

----------------------------------------------------------------------------
(* Aggregate accessors and the report, over self.issues.                   *)

\* has_errors testing for 'warning'
has_errors_from_warnings(iss) == \E k \in DOMAIN iss : iss[k].severity = "warning"
has_errors(iss) == \E k \in DOMAIN iss : iss[k].severity = "error"
has_warnings(iss) == \E k \in DOMAIN iss : iss[k].severity = "warning"

RECURSIVE get_error_count(_)
get_error_count(iss) ==
    IF iss = <<>> THEN 0
    ELSE (IF Head(iss).severity = "error" THEN 1 ELSE 0) + get_error_count(Tail(iss))

RECURSIVE get_warning_count(_)
get_warning_count(iss) ==
    IF iss = <<>> THEN 0
    ELSE (IF Head(iss).severity = "warning" THEN 1 ELSE 0) + get_warning_count(Tail(iss))

\* str(n) of a non-negative int, and of a negative one
Digit(d) == <<"0","1","2","3","4","5","6","7","8","9">>[d + 1]
RECURSIVE IntToStr(_)
IntToStr(n) ==
    IF n < 0 THEN <<"-">> \o IntToStr(-n)
    ELSE IF n < 10 THEN <<Digit(n)>>
    ELSE IntToStr(n \div 10) \o <<Digit(n % 10)>>

\* the two lines format_report writes for one issue
IssueText(f) ==
    R_Line \o IntToStr(f.line) \o R_Colon \o f.message \o R_NL
        \o R_Arrow \o f.suggestion \o R_NLNL

RECURSIVE IssueTexts(_)
IssueTexts(fs) == IF fs = <<>> THEN <<>> ELSE IssueText(Head(fs)) \o IssueTexts(Tail(fs))

\* format_report testing `if not errors` before it builds the report
format_report_no_errors(iss) ==
    IF SelectSeq(iss, LAMBDA f : f.severity = "error") = <<>> THEN R_NoIssues
    ELSE R_Found \o IntToStr(Len(iss)) \o R_Issues
             \o R_Errors \o IssueTexts(SelectSeq(iss, LAMBDA f : f.severity = "error"))
             \o (IF SelectSeq(iss, LAMBDA f : f.severity = "warning") # <<>>
                 THEN R_Warnings
                          \o IssueTexts(SelectSeq(iss, LAMBDA f : f.severity = "warning"))
                 ELSE <<>>)

\* format_report taking every finding that is not an error for a warning
format_report_rest_as_warnings(iss) ==
    IF iss = <<>> THEN R_NoIssues
    ELSE LET errors == SelectSeq(iss, LAMBDA f : f.severity = "error")
             warnings == SelectSeq(iss, LAMBDA f : f.severity # "error")
         IN  R_Found \o IntToStr(Len(iss)) \o R_Issues
                 \o (IF errors # <<>> THEN R_Errors \o IssueTexts(errors) ELSE <<>>)
                 \o (IF warnings # <<>> THEN R_Warnings \o IssueTexts(warnings) ELSE <<>>)

format_report(iss) ==
    IF iss = <<>> THEN R_NoIssues
    ELSE LET errors == SelectSeq(iss, LAMBDA f : f.severity = "error")
             warnings == SelectSeq(iss, LAMBDA f : f.severity = "warning")
         IN  R_Found \o IntToStr(Len(iss)) \o R_Issues
                 \o (IF errors # <<>> THEN R_Errors \o IssueTexts(errors) ELSE <<>>)
                 \o (IF warnings # <<>> THEN R_Warnings \o IssueTexts(warnings) ELSE <<>>)

----------------------------------------------------------------------------
(* The texts validate is called with: one line, or two lines with blank    *)
(* lines between them, the lines taken from a vocabulary that holds the    *)
(* triggers, guards and exemptions of every check.                         *)

\* (the empty line)
Ln_Blank ==
    <<>>
\* x = a / n
Ln_Div ==
    <<"x"," ","="," ","a"," ","/"," ","n">>
\* x = a // n
Ln_FloorDiv ==
    <<"x"," ","="," ","a"," ","/","/"," ","n">>
\* x = a / n // 2
Ln_DivThenFloorDiv ==
    <<"x"," ","="," ","a"," ","/"," ","n"," ","/","/"," ","2">>
\* # a / n
Ln_DivComment ==
    <<"#"," ","a"," ","/"," ","n">>
\* x = a / (n)
Ln_DivParen ==
    <<"x"," ","="," ","a"," ","/"," ","(","n",")">>
\* q = self.Portfolio[s] / n
Ln_DivPortfolio ==
    <<"q"," ","="," ","s","e","l","f",".","P","o","r","t","f","o","l","i","o","[","s","]"," ","/"," ","n">>
\* if n > 0:
Ln_IfPositive ==
    <<"i","f"," ","n"," ",">"," ","0",":">>
\* if n > 0: x = a / n
Ln_IfPositiveDiv ==
    <<"i","f"," ","n"," ",">"," ","0",":"," ","x"," ","="," ","a"," ","/"," ","n">>
\* m = max(self.h, 0)
Ln_Max ==
    <<"m"," ","="," ","m","a","x","(","s","e","l","f",".","h",","," ","0",")">>
\* if h is None:
Ln_IfNone ==
    <<"i","f"," ","h"," ","i","s"," ","N","o","n","e",":">>
\* v = rsi.Current.Value
Ln_Value ==
    <<"v"," ","="," ","r","s","i",".","C","u","r","r","e","n","t",".","V","a","l","u","e">>
\* v = rsi.Current.Value / n
Ln_ValueDiv ==
    <<"v"," ","="," ","r","s","i",".","C","u","r","r","e","n","t",".","V","a","l","u","e"," ","/"," ","n">>
\* # rsi.Current.Value
Ln_ValueComment ==
    <<"#"," ","r","s","i",".","C","u","r","r","e","n","t",".","V","a","l","u","e">>
\* if rsi.IsReady:
Ln_RsiReady ==
    <<"i","f"," ","r","s","i",".","I","s","R","e","a","d","y",":">>
\* if ema.IsReady:
Ln_EmaReady ==
    <<"i","f"," ","e","m","a",".","I","s","R","e","a","d","y",":">>
\* indicators["high"] > 1
Ln_High ==
    <<"i","n","d","i","c","a","t","o","r","s","[","\"","h","i","g","h","\"","]"," ",">"," ","1">>
\* indicators["low"] > 1
Ln_Low ==
    <<"i","n","d","i","c","a","t","o","r","s","[","\"","l","o","w","\"","]"," ",">"," ","1">>

Vocabulary ==
    {Ln_Blank, Ln_Div, Ln_FloorDiv, Ln_DivThenFloorDiv, Ln_DivComment,
     Ln_DivParen, Ln_DivPortfolio, Ln_IfPositive, Ln_IfPositiveDiv, Ln_Max,
     Ln_IfNone, Ln_Value, Ln_ValueDiv, Ln_ValueComment, Ln_RsiReady,
     Ln_EmaReady, Ln_High, Ln_Low}

\* the largest number of blank lines between the two lines of a text
MaxGap == 10

Blank(n) == [k \in 1..n |-> <<>>]

\* '\n'.join(ls)
RECURSIVE Join(_)
Join(ls) ==
    IF Len(ls) = 1 THEN ls[1] ELSE ls[1] \o <<"\n">> \o Join(Tail(ls))

Texts ==
    {Join(<<a>>) : a \in Vocabulary}
        \cup {Join(<<a>> \o Blank(g) \o <<b>>) :
                 a \in Vocabulary, b \in Vocabulary, g \in 0..MaxGap}

----------------------------------------------------------------------------
(* One validator instance, called serially.                                *)

\* validate without its first statement
KeepIssues(old) == old
\* self.issues = [] at the start of validate
ResetIssues(old) == <<>>

\* Python's None and a value that is not None, for variables that hold either
None == <<>>
Some(x) == <<x>>

\* chat.completions.create raising instead of returning a response
ApiRaises ==
    [raises |-> TRUE, choices |-> <<>>, model |-> "", usage |-> None]

\* there is no LLMClient
NoClient ==
    /\ envKey = None
    /\ sdkInstalled = FALSE
    /\ argKey = None
    /\ selfKey = None
    /\ openaiCalls = <<>>
    /\ initRaised = "none"
    /\ lpc = "unused"
    /\ lastCall = "none"
    /\ lastKw = "none"
    /\ lastApi = ApiRaises
    /\ apiCalls = 0
    /\ chatRaised = "none"
    /\ chatResult = None
    /\ promptResult = None

\* no thread calls an instance
NoThreads ==
    /\ heap = <<>>
    /\ self_issues = <<>>
    /\ inst = <<>>
    /\ tpc = <<>>
    /\ tcode = <<>>
    /\ tlines = <<>>
    /\ tk = <<>>
    /\ tret = <<>>
    /\ overlapped = <<>>

Init ==
    /\ code = <<>>
    /\ lines = <<>>
    /\ issues = <<>>
    /\ pc = "idle"
    /\ ret = <<>>
    /\ raised = "none"
    /\ repeat = FALSE
    /\ prevRet = <<>>
    /\ report = <<>>
    /\ NoThreads
    /\ NoClient

\* validate(T) is entered: self.issues = []
Validate(T) ==
    /\ pc = "idle"
    /\ code' = T
    /\ issues' = ResetIssues(issues)
    /\ pc' = "split"
    /\ repeat' = FALSE
    /\ prevRet' = <<>>
    /\ UNCHANGED <<lines, ret, raised, others>>

\* validate is entered again with the text of the call that just returned
Revalidate ==
    /\ pc = "done"
    /\ issues' = ResetIssues(issues)
    /\ pc' = "split"
    /\ repeat' = TRUE
    /\ prevRet' = ret
    /\ lines' = <<>>
    /\ ret' = <<>>
    /\ UNCHANGED <<code, raised, others>>

\* lines = code.split('\n')
Split ==
    /\ pc = "split"
    /\ lines' = split(code)
    /\ pc' = "division"
    /\ UNCHANGED <<code, issues, ret, raised, repeat, prevRet, others>>

\* one check runs over lines; an exception it raises leaves validate
RunCheck(at, result, next) ==
    /\ pc = at
    /\ issues' = issues \o result.out
    /\ pc' = IF result.err = "none" THEN next ELSE "raised"
    /\ raised' = result.err
    /\ UNCHANGED <<code, lines, ret, repeat, prevRet, others>>

CheckDivision ==
    RunCheck("division", check_division_operations(lines), "max_min")
CheckMaxMin ==
    RunCheck("max_min", check_max_min_operations(lines), "indicator")
CheckIndicator ==
    RunCheck("indicator", check_indicator_usage(lines), "none_comparison")
CheckNoneComparisons ==
    RunCheck("none_comparison", check_none_comparisons(lines), "portfolio")
CheckPortfolio ==
    RunCheck("portfolio", check_portfolio_access(lines), "return")

\* return self.issues
Return ==
    /\ pc = "return"
    /\ ret' = issues
    /\ pc' = "done"
    /\ UNCHANGED <<code, lines, issues, raised, repeat, prevRet, others>>

\* the caller lets go of the text and of what the call returned or raised;
\* the instance keeps self.issues
Release ==
    /\ pc \in {"done", "raised"}
    /\ pc' = "idle"
    /\ code' = <<>>
    /\ lines' = <<>>
    /\ ret' = <<>>
    /\ raised' = "none"
    /\ repeat' = FALSE
    /\ prevRet' = <<>>
    /\ UNCHANGED <<issues, others>>

Next ==
    \/ \E T \in Texts : Validate(T)
    \/ Revalidate
    \/ Split
    \/ CheckDivision
    \/ CheckMaxMin
    \/ CheckIndicator
    \/ CheckNoneComparisons
    \/ CheckPortfolio
    \/ Return
    \/ Release

Spec == Init /\ [][Next]_vars

----------------------------------------------------------------------------
(* What a fresh instance returns for a text: the checks in the order of    *)
(* validate, over the split text, from an empty list.                      *)

\* the findings of the first n checks of validate on ls, in order (n in 0..5)
RECURSIVE FirstChecks(_, _)
FirstChecks(ls, n) ==
    IF n = 0 THEN <<>>
    ELSE FirstChecks(ls, n - 1) \o
         (CASE n = 1 -> check_division_operations(ls).out
            [] n = 2 -> check_max_min_operations(ls).out
            [] n = 3 -> check_indicator_usage(ls).out
            [] n = 4 -> check_none_comparisons(ls).out
            [] n = 5 -> check_portfolio_access(ls).out)

FreshValidate(T) == FirstChecks(split(T), 5)

----------------------------------------------------------------------------
(* Vocabulary of the properties.                                           *)

\* the number of physical lines of a text: its line breaks plus one
PhysicalLines(T) == 1 + Cardinality({k \in 1..Len(T) : T[k] = "\n"})

\* the check a finding comes from, read off its message: 1 division,
\* 2 max/min, 3 indicator readiness, 4 None comparison
CheckOf(f) ==
    CASE StartsAt(f.message, M_DivA, 1) -> 1
      [] f.message = M_MaxMin -> 2
      [] f.message = M_Ind -> 3
      [] f.message = M_Cmp -> 4
      [] OTHER -> 0

\* the trigger pattern of each check on one line
Trigger(c, line) ==
    CASE c = 1 -> In(<<"/">>, line) /\ ~In(<<"/", "/">>, line) /\ ~IsCommentLine(line)
      [] c = 2 -> MaxMinSearch(line) /\ (In(S_indicators, line) \/ In(S_self, line))
      [] c = 3 -> IndicatorSearch(line).matched /\ ~IsCommentLine(line)
      [] c = 4 -> /\ ComparisonSearch(line)
                  /\ In(S_indicators, line) \/ In(S_self, line)
      [] OTHER -> FALSE

\* the positions in the returned list of the findings of check c for line k
FindingsAt(c, k) == {n \in DOMAIN ret : CheckOf(ret[n]) = c /\ ret[n].line = k}

\* the existing lines among the w lines strictly above line k
Above(k, w) == {m \in 1..Len(lines) : k - w <= m /\ m < k}

----------------------------------------------------------------------------
(* C1                                                                      *)

\* C1: for every text, validate completes and returns a list without
\* raising: every index a guard scan of any check uses is an index of the
\* list of lines, no exception leaves a check, and the call that has
\* returned handed back the list of findings.
C1_NoThrow ==
    /\ raised = "none"
    /\ pc # "raised"
    /\ pc \notin {"idle", "split"} =>
           \A k \in 1..Len(lines) : \A w \in {DivWindow, MaxMinWindow, IndWindow, NoneWindow} :
               \A j \in RangeStart(LineNo(k), w)..(LineNo(k) - 1) : ValidIndex(lines, j - 1)
    /\ pc = "done" => ret = issues

\* a call has returned for a text with an unguarded division line on which
\* no divisor can be captured, and it returned no finding for that line
C1_Witness ==
    /\ pc = "done"
    /\ raised = "none"
    /\ \E k \in 1..Len(lines) :
          /\ Trigger(1, lines[k])
          /\ ~DivisorSearch(lines[k]).matched
          /\ \A m \in 1..Len(lines) : ~DivGuard(lines[m])
          /\ FindingsAt(1, k) = {}

----------------------------------------------------------------------------
(* C2                                                                      *)

\* C2: every finding returned for a text of L physical lines has
\* 1 <= line <= L, and its line is the number of a line on which the
\* trigger pattern of its check matches.
C2_LineBounds ==
    pc = "done" =>
        \A n \in DOMAIN ret :
            /\ 1 <= ret[n].line
            /\ ret[n].line <= PhysicalLines(code)
            /\ CheckOf(ret[n]) \in 1..4
            /\ Trigger(CheckOf(ret[n]), split(code)[ret[n].line])

\* a call returned a finding for the last line of a text of several lines
C2_Witness ==
    /\ pc = "done"
    /\ PhysicalLines(code) > 1
    /\ \E n \in DOMAIN ret : ret[n].line = PhysicalLines(code)

----------------------------------------------------------------------------
(* C3                                                                      *)

\* C3: whatever the instance validated before, a call starts from an empty
\* list, and what validate(T) returns and what has_errors, has_warnings,
\* get_error_count, get_warning_count and format_report read after it are
\* those of a fresh instance validating T; validate(T) called twice in a
\* row returns the same sequence.
C3_Determinism ==
    /\ pc = "split" => issues = <<>>
    /\ pc = "done" =>
          /\ ret = FreshValidate(code)
          /\ issues = ret
          /\ has_errors(issues) = has_errors(FreshValidate(code))
          /\ has_warnings(issues) = has_warnings(FreshValidate(code))
          /\ get_error_count(issues) = get_error_count(FreshValidate(code))
          /\ get_warning_count(issues) = get_warning_count(FreshValidate(code))
          /\ format_report(issues) = format_report(FreshValidate(code))
    /\ pc = "done" /\ repeat => ret = prevRet

\* the second of two calls in a row on a text with findings has returned
C3_Witness ==
    /\ pc = "done"
    /\ repeat
    /\ prevRet # <<>>
    /\ Len(ret) = Len(prevRet)

----------------------------------------------------------------------------
(* C4 - C8: the four checks against their stated windows.                  *)

\* no line among the w lines strictly above line k is a guard
NoGuardAbove(k, w, isGuard) == \A m \in Above(k, w) : ~isGuard[m]

\* the numbers of the lines the guard scan for line k indexes
LinesRead(k, w) ==
    {IF j - 1 >= 0 THEN j ELSE Len(lines) + j : j \in RangeStart(LineNo(k), w)..(LineNo(k) - 1)}

\* line k would get a finding of check c if no guard were found
EmitsUnguarded(c, line) ==
    CASE c = 1 -> /\ Trigger(1, line)
                  /\ ~In(S_positionSize, line) /\ ~In(S_Portfolio, line)
                  /\ DivisorSearch(line).matched
      [] c = 2 -> Trigger(2, line)
      [] c = 3 -> Trigger(3, line)
      [] c = 4 -> /\ Trigger(4, line)
                  /\ ~In(S_isNone, line) /\ ~In(S_isNotNone, line)
                  /\ In(S_high, line) \/ In(S_low, line)
      [] OTHER -> FALSE

\* the window and the guard pattern of check c for a trigger line
WindowOf(c) ==
    CASE c = 1 -> DivWindow [] c = 2 -> MaxMinWindow [] c = 3 -> IndWindow
      [] OTHER -> NoneWindow
IsGuardFor(c, line, l) ==
    CASE c = 1 -> DivGuard(l)
      [] c = 3 -> In(IndicatorSearch(line).group1 \o S_IsReady, l)
      [] OTHER -> NoneGuard(l)

\* C4: in every check the guard scan for a trigger at line i reads only the
\* existing lines i-W .. i-1, so a guard pattern that occurs only on line i,
\* below it or more than W lines above it never suppresses the finding.
C4_LookbackWindow ==
    pc = "done" =>
        \A c \in 1..4 : \A k \in 1..Len(lines) :
            /\ Trigger(c, lines[k]) => LinesRead(k, WindowOf(c)) \subseteq Above(k, WindowOf(c))
            /\ (/\ EmitsUnguarded(c, lines[k])
                /\ NoGuardAbove(k, WindowOf(c),
                       [m \in 1..Len(lines) |-> IsGuardFor(c, lines[k], lines[m])]))
                   => FindingsAt(c, k) # {}

\* a `/` of the line that is not part of `//`
SingleSlash(line) ==
    \E p \in 1..Len(line) :
        /\ line[p] = "/"
        /\ ~(p > 1 /\ line[p - 1] = "/")
        /\ ~(p < Len(line) /\ line[p + 1] = "/")

\* C5: the division check emits a finding for line i iff the line is not a
\* comment, has a `/` that is not part of `//`, has neither positionSize
\* nor Portfolio, has no guard in the 5 lines strictly above and a word can
\* be captured after a `/`; then exactly one warning naming the first
\* captured token, its suggestion containing `if <token> <= 0: continue`.
C5_Division ==
    pc = "done" =>
        \A k \in 1..Len(lines) :
            LET line == lines[k]
                token == DivisorSearch(line).group1
                emits == /\ ~IsCommentLine(line)
                         /\ SingleSlash(line)
                         /\ ~In(S_positionSize, line) /\ ~In(S_Portfolio, line)
                         /\ NoGuardAbove(k, DivWindow,
                                [m \in 1..Len(lines) |-> DivGuard(lines[m])])
                         /\ DivisorSearch(line).matched
            IN  /\ Cardinality(FindingsAt(1, k)) = IF emits THEN 1 ELSE 0
                /\ \A n \in FindingsAt(1, k) :
                      /\ ret[n].severity = "warning"
                      /\ ret[n].message = M_DivA \o token \o M_DivB
                      /\ In(<<"i", "f", " ">> \o token \o M_SugB, ret[n].suggestion)

\* C6: the indicator-readiness check emits exactly one error for line i iff
\* the line is not a comment, matches <identifier>.Current.Value, and none
\* of the 10 lines strictly above contains <identifier>.IsReady for the
\* identifier of the first match.
C6_Indicator ==
    pc = "done" =>
        \A k \in 1..Len(lines) :
            LET line == lines[k]
                emits == /\ ~IsCommentLine(line)
                         /\ IndicatorSearch(line).matched
                         /\ NoGuardAbove(k, IndWindow,
                                [m \in 1..Len(lines) |->
                                    In(IndicatorSearch(line).group1 \o S_IsReady, lines[m])])
            IN  /\ Cardinality(FindingsAt(3, k)) = IF emits THEN 1 ELSE 0
                /\ \A n \in FindingsAt(3, k) : ret[n].severity = "error"

\* C7: the None-comparison check considers a line only when it has a
\* comparison operator, references indicators[ or self. and has no
\* is None / is not None itself; for such a line it emits one error iff
\* (no guard in the 5 lines strictly above and indicators["high"]) or
\* indicators["low"].
C7_NoneComparison ==
    pc = "done" =>
        \A k \in 1..Len(lines) :
            LET line == lines[k]
                considered == /\ ComparisonSearch(line)
                              /\ In(S_indicators, line) \/ In(S_self, line)
                              /\ ~In(S_isNone, line) /\ ~In(S_isNotNone, line)
                emits == \/ /\ NoGuardAbove(k, NoneWindow,
                                   [m \in 1..Len(lines) |-> NoneGuard(lines[m])])
                            /\ In(S_high, line)
                         \/ In(S_low, line)
            IN  /\ Cardinality(FindingsAt(4, k)) = IF considered /\ emits THEN 1 ELSE 0
                /\ \A n \in FindingsAt(4, k) : ret[n].severity = "error"

\* C8: the max/min check emits exactly one error with the fixed message for
\* line i iff the line has a word-delimited max( or min(, has indicators[
\* or self., and none of the 5 lines strictly above has is None or
\* is not None.
C8_MaxMin ==
    pc = "done" =>
        \A k \in 1..Len(lines) :
            LET line == lines[k]
                emits == /\ MaxMinSearch(line)
                         /\ In(S_indicators, line) \/ In(S_self, line)
                         /\ NoGuardAbove(k, MaxMinWindow,
                                [m \in 1..Len(lines) |-> NoneGuard(lines[m])])
            IN  /\ Cardinality(FindingsAt(2, k)) = IF emits THEN 1 ELSE 0
                /\ \A n \in FindingsAt(2, k) :
                      /\ ret[n].severity = "error"
                      /\ ret[n].message = M_MaxMin
                      /\ ret[n].suggestion = M_MaxMinSug

----------------------------------------------------------------------------
(* C9, C10                                                                 *)

\* C9: the returned sequence is ordered by check (division, max/min,
\* indicator readiness, None comparison) and, within one check, by strictly
\* increasing line number.
C9_OrderByCheck ==
    pc = "done" =>
        \A p \in DOMAIN ret : \A q \in DOMAIN ret :
            p < q =>
                \/ CheckOf(ret[p]) < CheckOf(ret[q])
                \/ CheckOf(ret[p]) = CheckOf(ret[q]) /\ ret[p].line < ret[q].line

\* a call returned two findings of one check and a finding of a later check
\* whose line number is smaller than that of a finding before it
C9_Witness ==
    /\ pc = "done"
    /\ \E p \in DOMAIN ret : \E q \in DOMAIN ret :
          p < q /\ CheckOf(ret[p]) < CheckOf(ret[q]) /\ ret[q].line < ret[p].line
    /\ \E p \in DOMAIN ret : \E q \in DOMAIN ret :
          p < q /\ CheckOf(ret[p]) = CheckOf(ret[q])

\* C10: after a validate call get_error_count and get_warning_count are the
\* numbers of findings of the last run of severity error and warning,
\* has_errors and has_warnings say whether these are positive, and the two
\* counts add up to the length of the returned list.
C10_Counts ==
    /\ pc \in {"done", "idle"} =>
          /\ get_error_count(issues) =
                 Cardinality({n \in DOMAIN issues : issues[n].severity = "error"})
          /\ get_warning_count(issues) =
                 Cardinality({n \in DOMAIN issues : issues[n].severity = "warning"})
          /\ has_errors(issues) <=> get_error_count(issues) > 0
          /\ has_warnings(issues) <=> get_warning_count(issues) > 0
    /\ pc = "done" => get_error_count(issues) + get_warning_count(issues) = Len(ret)

\* a call returned warnings and no error
C10_Witness ==
    /\ pc = "done"
    /\ get_warning_count(issues) > 0
    /\ get_error_count(issues) = 0
    /\ Len(ret) > 0

----------------------------------------------------------------------------
(* C11                                                                     *)

\* C11: format_report returns the fixed no-issues message exactly when the
\* instance holds no finding: before any validate call, after a run that
\* found nothing, and never after a run that found something.
C11_ReportEmptiness ==
    /\ pc \in {"idle", "done"} =>
          (format_report(issues) = R_NoIssues <=> issues = <<>>)
    /\ pc = "done" /\ ret # <<>> => format_report(issues) # R_NoIssues
    /\ pc = "done" /\ code = <<>> => format_report(issues) = R_NoIssues

\* validate("") has returned and the report is the no-issues message
C11_Witness ==
    /\ pc = "done"
    /\ code = <<>>
    /\ ret = <<>>
    /\ format_report(issues) = R_NoIssues

----------------------------------------------------------------------------
(* C17                                                                     *)

IsPrefix(a, b) == Len(a) <= Len(b) /\ SubSeq(b, 1, Len(a)) = a

\* C17: within one validate run every check is append-only (the list before
\* it is a prefix of the list after it), and the portfolio-access check
\* leaves the list as it was, for every input.
C17_AppendOnly ==
    [][/\ pc \in {"division", "max_min", "indicator", "none_comparison", "portfolio"}
           => IsPrefix(issues, issues')
       /\ pc = "portfolio" => issues' = issues]_vars

\* the portfolio-access check has run over a text with a line holding
\* self.Portfolio[ without Invested, after earlier checks recorded findings
C17_Witness ==
    /\ pc = "return"
    /\ issues # <<>>
    /\ \E k \in 1..Len(lines) :
          In(S_selfPortfolio, lines[k]) /\ ~In(S_Invested, lines[k])

----------------------------------------------------------------------------
(* format_report as a function of self.issues: an instance whose list      *)
(* holds any findings of the three severities of ValidationIssue.          *)

\* the longest list of findings a report is formatted for
MaxFindings == 3

Tok_n == <<"n">>

\* findings of every severity, at a one-digit and a two-digit line, with an
\* interpolated and a fixed message
Findings ==
    {ValidationIssue(sev, ln, ms[1], ms[2]) :
        sev \in {"error", "warning", "info"},
        ln \in {1, 12},
        ms \in {<<M_DivA \o Tok_n \o M_DivB, M_SugA \o Tok_n \o M_SugB>>,
                <<M_MaxMin, M_MaxMinSug>>}}

FindingLists ==
    UNION {[1..n -> Findings] : n \in 0..MaxFindings}

InitReport ==
    /\ code = <<>>
    /\ lines = <<>>
    /\ issues \in FindingLists
    /\ pc = "report"
    /\ ret = <<>>
    /\ raised = "none"
    /\ repeat = FALSE
    /\ prevRet = <<>>
    /\ report = <<>>
    /\ NoThreads
    /\ NoClient

\* format_report() is called and returns
FormatReport ==
    /\ pc = "report"
    /\ report' = format_report(issues)
    /\ pc' = "reported"
    /\ UNCHANGED <<code, lines, issues, ret, raised, repeat, prevRet, threadVars, llmVars>>

NextReport == FormatReport

SpecReport == InitReport /\ [][NextReport]_vars

----------------------------------------------------------------------------
(* C12                                                                     *)

\* the number of places of s at which p occurs
Occurrences(p, s) == Cardinality({k \in 1..Len(s) : StartsAt(s, p, k)})

\* what the report shows of one finding: its line, message and suggestion
Entry(f) ==
    R_Line \o IntToStr(f.line) \o R_Colon \o f.message \o R_NL
        \o R_Arrow \o f.suggestion \o R_NLNL

RECURSIVE EntriesLen(_)
EntriesLen(fs) == IF fs = <<>> THEN 0 ELSE Len(Entry(Head(fs))) + EntriesLen(Tail(fs))

\* section `title` lists fs, in order, from position at of s on
SectionAt(s, at, title, fs) ==
    /\ StartsAt(s, title, at)
    /\ \A m \in 1..Len(fs) :
          StartsAt(s, Entry(fs[m]), at + Len(title) + EntriesLen(SubSeq(fs, 1, m - 1)))

\* C12: for a non-empty list the report is a count header, then every
\* error, then every warning, each listed exactly once with its line,
\* message and suggestion and in list order; an info finding is not listed.
C12_ReportLayout ==
    pc = "reported" /\ issues # <<>> =>
        LET errs == SelectSeq(issues, LAMBDA f : f.severity = "error")
            warns == SelectSeq(issues, LAMBDA f : f.severity = "warning")
            header == R_Found \o IntToStr(Len(issues)) \o R_Issues
            errLen == IF errs = <<>> THEN 0 ELSE Len(R_Errors) + EntriesLen(errs)
            warnLen == IF warns = <<>> THEN 0 ELSE Len(R_Warnings) + EntriesLen(warns)
        IN  /\ StartsAt(report, header, 1)
            /\ errs # <<>> => SectionAt(report, Len(header) + 1, R_Errors, errs)
            /\ warns # <<>> =>
                   SectionAt(report, Len(header) + errLen + 1, R_Warnings, warns)
            /\ Len(report) = Len(header) + errLen + warnLen
            /\ \A n \in DOMAIN issues :
                   Occurrences(Entry(issues[n]), report) =
                       Cardinality({m \in DOMAIN issues :
                                      /\ Entry(issues[m]) = Entry(issues[n])
                                      /\ issues[m].severity \in {"error", "warning"}})

\* a report was formatted for a list that holds a warning before an error
\* and an info finding that no listed finding shares its text with
C12_Witness ==
    /\ pc = "reported"
    /\ \E a \in DOMAIN issues : \E b \in DOMAIN issues :
          a < b /\ issues[a].severity = "warning" /\ issues[b].severity = "error"
    /\ \E n \in DOMAIN issues :
          /\ issues[n].severity = "info"
          /\ Occurrences(Entry(issues[n]), report) = 0

----------------------------------------------------------------------------
(* Two threads, each calling validate once, on two instances or on one     *)
(* shared instance.  A step is one statement of validate or one pass of a  *)
(* check's loop body; lists are objects, so that `self.issues = []` binds  *)
(* the attribute to a new list and `return self.issues` hands out the      *)
(* object itself.                                                          *)

Threads == {1, 2}

\* the texts the threads validate
ThreadTexts ==
    {Join(<<Ln_Blank>>), Join(<<Ln_Div>>), Join(<<Ln_Max>>),
     Join(<<Ln_ValueDiv, Ln_Div>>)}

CheckOrder == <<"division", "max_min", "indicator", "none_comparison", "portfolio">>
CheckNo(c) == CHOOSE n \in 1..Len(CheckOrder) : CheckOrder[n] = c

\* the loop body of check c for the k-th line
LineBody(c, ls, k) ==
    CASE c = "division" -> DivisionLine(ls, k)
      [] c = "max_min" -> MaxMinLine(ls, k)
      [] c = "indicator" -> IndicatorLine(ls, k)
      [] c = "none_comparison" -> NoneComparisonLine(ls, k)
      [] c = "portfolio" -> PortfolioLine(ls, k)

\* a module-level list in place of the instance attribute
TargetGlobal(t) == self_issues[1]
\* the list object self.issues denotes in the call of thread t
Target(t) == self_issues[inst[t]]

\* no call is running
ThreadsIdle ==
    /\ tpc = [t \in Threads |-> "idle"]
    /\ tcode = [t \in Threads |-> <<>>]
    /\ tlines = [t \in Threads |-> <<>>]
    /\ tk = [t \in Threads |-> 0]
    /\ tret = [t \in Threads |-> 0]
    /\ overlapped = [t \in Threads |-> FALSE]

SerialIdle ==
    /\ code = <<>>
    /\ lines = <<>>
    /\ issues = <<>>
    /\ pc = "threads"
    /\ ret = <<>>
    /\ raised = "none"
    /\ repeat = FALSE
    /\ prevRet = <<>>
    /\ report = <<>>

\* two instances, each constructed with its own empty list, one per thread
InitTwoInstances ==
    /\ SerialIdle
    /\ NoClient
    /\ heap = << <<>>, <<>> >>
    /\ self_issues = <<1, 2>>
    /\ inst = <<1, 2>>
    /\ ThreadsIdle

\* one instance, called by both threads
InitShared ==
    /\ SerialIdle
    /\ NoClient
    /\ heap = << <<>> >>
    /\ self_issues = <<1>>
    /\ inst = <<1, 1>>
    /\ ThreadsIdle

Running(t) == tpc[t] \notin {"idle", "done", "raised"}

\* thread t enters validate(T): self.issues = []
T_Validate(t, T) ==
    /\ tpc[t] = "idle"
    /\ heap' = Append(heap, ResetIssues(heap[self_issues[inst[t]]]))
    /\ self_issues' = [self_issues EXCEPT ![inst[t]] = Len(heap) + 1]
    /\ tcode' = [tcode EXCEPT ![t] = T]
    /\ tpc' = [tpc EXCEPT ![t] = "split"]
    /\ overlapped' = [u \in Threads |->
                         IF u = t THEN \E v \in Threads \ {t} : Running(v)
                         ELSE overlapped[u] \/ Running(u)]
    /\ UNCHANGED <<inst, tlines, tk, tret>>

\* lines = code.split('\n')
T_Split(t) ==
    /\ tpc[t] = "split"
    /\ tlines' = [tlines EXCEPT ![t] = split(tcode[t])]
    /\ tpc' = [tpc EXCEPT ![t] = "division"]
    /\ tk' = [tk EXCEPT ![t] = 1]
    /\ UNCHANGED <<heap, self_issues, inst, tcode, tret, overlapped>>

\* one pass of the loop body of the running check: its findings are
\* appended to the list self.issues denotes now
T_LoopBody(t) ==
    /\ tpc[t] \in {CheckOrder[n] : n \in 1..Len(CheckOrder)}
    /\ LET c == tpc[t]
           r == LineBody(c, tlines[t], tk[t])
           last == tk[t] = Len(tlines[t])
       IN  /\ heap' = [heap EXCEPT ![Target(t)] = @ \o r.out]
           /\ tpc' = [tpc EXCEPT ![t] =
                         IF r.err # "none" THEN "raised"
                         ELSE IF ~last THEN c
                         ELSE IF CheckNo(c) < Len(CheckOrder) THEN CheckOrder[CheckNo(c) + 1]
                         ELSE "return"]
           /\ tk' = [tk EXCEPT ![t] = IF last THEN 1 ELSE @ + 1]
    /\ UNCHANGED <<self_issues, inst, tcode, tlines, tret, overlapped>>

\* return self.issues
T_Return(t) ==
    /\ tpc[t] = "return"
    /\ tret' = [tret EXCEPT ![t] = Target(t)]
    /\ tpc' = [tpc EXCEPT ![t] = "done"]
    /\ UNCHANGED <<heap, self_issues, inst, tcode, tlines, tk, overlapped>>

NextThreads ==
    /\ \E t \in Threads :
          \/ \E T \in ThreadTexts : T_Validate(t, T)
          \/ T_Split(t)
          \/ T_LoopBody(t)
          \/ T_Return(t)
    /\ UNCHANGED <<code, lines, issues, pc, ret, raised, repeat, prevRet, report, llmVars>>

SpecTwoInstances == InitTwoInstances /\ [][NextThreads]_vars
SpecShared == InitShared /\ [][NextThreads]_vars

----------------------------------------------------------------------------
(* C13                                                                     *)

\* what a run on ls has recorded when it stands before the k-th line of
\* check c, when it stands before its return, and when it has returned
Recorded(ls, at, k) ==
    IF at \in {"return", "done"} THEN FirstChecks(ls, 5)
    ELSE FirstChecks(ls, CheckNo(at) - 1)
             \o Flatten([j \in 1..(k - 1) |-> LineBody(at, ls, j).out])

Range(f) == {f[x] : x \in DOMAIN f}

\* C13: two instances validating concurrently, each its own text: under
\* every interleaving the two instances hold different list objects, the
\* list of an instance holds exactly what its own call has recorded so far,
\* and each call returns the findings of a serial run on its text.
C13_IndependentInstances ==
    /\ self_issues[1] # self_issues[2]
    /\ \A t \in Threads :
          /\ tpc[t] \notin {"idle", "split"} =>
                 heap[self_issues[inst[t]]] = Recorded(tlines[t], tpc[t], tk[t])
          /\ tpc[t] = "done" =>
                 /\ tret[t] = self_issues[inst[t]]
                 /\ heap[tret[t]] = FreshValidate(tcode[t])

\* both calls have returned findings, and they ran at the same time
C13_Witness ==
    /\ \A t \in Threads :
          tpc[t] = "done" /\ overlapped[t] /\ heap[tret[t]] # <<>>
    /\ heap[tret[1]] # heap[tret[2]]

----------------------------------------------------------------------------
(* C16                                                                     *)

\* C16: two validate calls on one shared instance race on self.issues.  A
\* call that no other call overlaps returns the serial result for its
\* text and a returned list holds findings of the two texts only; a call
\* that overlaps another may return a list that lacks its own findings
\* (discarded by the other call's reset) and holds the other text's.
C16_SharedInstanceRace ==
    \A t \in Threads :
        tpc[t] = "done" =>
            /\ ~overlapped[t] => heap[tret[t]] = FreshValidate(tcode[t])
            /\ Range(heap[tret[t]]) \subseteq
                   UNION {Range(FreshValidate(tcode[u])) : u \in Threads}

\* a call has returned a list that lacks a finding of its own text and
\* holds a finding of the other call's text
C16_Witness ==
    \E t \in Threads :
        /\ tpc[t] = "done"
        /\ overlapped[t]
        /\ \E f \in Range(FreshValidate(tcode[t])) : f \notin Range(heap[tret[t]])
        /\ \E f \in Range(heap[tret[t]]) :
              /\ f \notin Range(FreshValidate(tcode[t]))
              /\ \E u \in Threads \ {t} : f \in Range(FreshValidate(tcode[u]))

----------------------------------------------------------------------------
(* LLMClient: construction, chat_completion and simple_prompt.  The OpenAI *)
(* SDK and the API behind it are the environment: the import succeeds or   *)
(* not, and a call of chat.completions.create raises or returns a          *)
(* response whose parts may be missing.                                    *)

\* bool(x) of a variable holding None or a str
Truthy(x) == x # None /\ x[1] # ""

\* getenv before the argument
KeyChoiceEnvFirst(arg, env) == IF Truthy(env) THEN env ELSE arg
\* api_key or os.getenv('OPENAI_API_KEY')
KeyChoice(arg, env) == IF Truthy(arg) THEN arg ELSE env

Keys(name) == {None, Some(""), Some(name)}

\* s.strip()
Strip(s) ==
    LET ns == {k \in 1..Len(s) : ~IsSpace(s[k])}
    IN  IF ns = {} THEN <<>> ELSE SubSeq(s, Min(ns), Max(ns))

\* the contents a choice's message may hold: None, or text with or without
\* whitespace around it or nothing but whitespace
Contents ==
    {None, Some(<<"o", "k">>), Some(<<" ", "o", "k", "\n">>), Some(<<" ">>)}

Choices ==
    {[content |-> c, finish_reason |-> f] : c \in Contents, f \in {"stop", "length"}}

OtherChoice == [content |-> Some(<<"n", "o">>), finish_reason |-> "other"]

\* what chat.completions.create may do: raise, or return a response with
\* no, one or two choices and with or without usage
ApiBehaviours ==
    {ApiRaises} \cup
    {[raises |-> FALSE, choices |-> cs, model |-> "gpt-4o-2024-11-20", usage |-> u] :
        cs \in {<<>>} \cup {<<c>> : c \in Choices} \cup {<<c, OtherChoice>> : c \in Choices},
        u \in {None, Some(100)}}

\* **kwargs: none, parameters create accepts beside the four named ones, or
\* a repetition of model, messages, max_tokens or temperature
KwargsKinds == {"none", "extra", "collides"}

LLMResponse(content, model, tokens_used, finish_reason) ==
    [content |-> content, model |-> model, tokens_used |-> tokens_used,
     finish_reason |-> finish_reason]

\* lines 95-102: choice = response.choices[0]; result = LLMResponse(...)
ReadResponse(resp) ==
    IF Len(resp.choices) = 0 THEN [raised |-> "IndexError", result |-> None]
    ELSE LET choice == resp.choices[1]
         IN  IF choice.content = None \/ resp.usage = None
             THEN [raised |-> "AttributeError", result |-> None]
             ELSE [raised |-> "none",
                   result |-> Some(LLMResponse(Strip(choice.content[1]), resp.model,
                                               resp.usage[1], choice.finish_reason))]

\* the try block of chat_completion: the exception it ends with or the
\* result it returns, and the times create was invoked
TryBlock(kw, api) ==
    IF kw = "collides" THEN [raised |-> "TypeError", result |-> None, calls |-> 0]
    ELSE IF api.raises THEN [raised |-> "Exception", result |-> None, calls |-> 1]
    ELSE [raised |-> ReadResponse(api).raised, result |-> ReadResponse(api).result,
          calls |-> 1]

\* chat_completion calling create a second time when the first try failed
chat_completion_retry(kw, api) ==
    LET try == TryBlock(kw, api)
    IN  IF try.raised # "none"
        THEN [raised |-> "none", result |-> None, calls |-> try.calls + TryBlock(kw, api).calls]
        ELSE try

\* chat_completion: `except Exception` turns every exception of the try
\* block into the return value None
chat_completion(kw, api) ==
    LET try == TryBlock(kw, api)
    IN  IF try.raised # "none"
        THEN [raised |-> "none", result |-> None, calls |-> try.calls]
        ELSE try

\* simple_prompt: response.content if response else None
simple_prompt(response) ==
    IF response # None THEN Some(response[1].content) ELSE None

InitLLM ==
    /\ code = <<>>
    /\ lines = <<>>
    /\ issues = <<>>
    /\ pc = "llm"
    /\ ret = <<>>
    /\ raised = "none"
    /\ repeat = FALSE
    /\ prevRet = <<>>
    /\ report = <<>>
    /\ NoThreads
    /\ envKey \in Keys("env-key")
    /\ argKey \in Keys("arg-key")
    /\ sdkInstalled \in BOOLEAN
    /\ selfKey = None
    /\ openaiCalls = <<>>
    /\ initRaised = "none"
    /\ lpc = "start"
    /\ lastCall = "none"
    /\ lastKw = "none"
    /\ lastApi = ApiRaises
    /\ apiCalls = 0
    /\ chatRaised = "none"
    /\ chatResult = None
    /\ promptResult = None

\* LLMClient(api_key=argKey)
Construct ==
    /\ lpc = "start"
    /\ selfKey' = KeyChoice(argKey, envKey)
    /\ initRaised' = IF ~Truthy(selfKey') THEN "ValueError"
                     ELSE IF ~sdkInstalled THEN "ImportError"
                     ELSE "none"
    /\ openaiCalls' = IF initRaised' = "none" THEN Append(openaiCalls, selfKey')
                      ELSE openaiCalls
    /\ lpc' = IF initRaised' = "none" THEN "ready" ELSE "failed"
    /\ UNCHANGED <<envKey, sdkInstalled, argKey, lastCall, lastKw, lastApi, apiCalls,
                   chatRaised, chatResult, promptResult>>

\* client.chat_completion(messages, **kwargs), the API behaving as api
ChatCompletion(kw, api) ==
    /\ lpc = "ready"
    /\ lastCall' = "chat"
    /\ lastKw' = kw
    /\ lastApi' = api
    /\ apiCalls' = chat_completion(kw, api).calls
    /\ chatRaised' = chat_completion(kw, api).raised
    /\ chatResult' = chat_completion(kw, api).result
    /\ promptResult' = None
    /\ UNCHANGED <<envKey, sdkInstalled, argKey, selfKey, openaiCalls, initRaised, lpc>>

\* client.simple_prompt(system_message, user_message, **kwargs)
SimplePrompt(kw, api) ==
    /\ lpc = "ready"
    /\ lastCall' = "prompt"
    /\ lastKw' = kw
    /\ lastApi' = api
    /\ apiCalls' = chat_completion(kw, api).calls
    /\ chatRaised' = chat_completion(kw, api).raised
    /\ chatResult' = chat_completion(kw, api).result
    /\ promptResult' = simple_prompt(chatResult')
    /\ UNCHANGED <<envKey, sdkInstalled, argKey, selfKey, openaiCalls, initRaised, lpc>>

NextLLM ==
    /\ \/ Construct
       \/ \E kw \in KwargsKinds : \E api \in ApiBehaviours : ChatCompletion(kw, api)
       \/ \E kw \in KwargsKinds : \E api \in ApiBehaviours : SimplePrompt(kw, api)
    /\ UNCHANGED <<code, lines, issues, pc, ret, raised, repeat, prevRet, report, threadVars>>

SpecLLM == InitLLM /\ [][NextLLM]_vars

----------------------------------------------------------------------------
(* Properties of LLMClient (specification SpecLLM)                         *)

\* The response cannot be read: no first choice, no content or no usage
Unreadable(api) ==
    \/ Len(api.choices) = 0
    \/ api.choices[1].content = None
    \/ api.usage = None

\* create was entered (the keyword arguments did not clash) and it raised,
\* or the reading of what it returned raised
CallFailed == lastKw # "collides" /\ (lastApi.raises \/ Unreadable(lastApi))
CallSucceeded == lastKw # "collides" /\ ~lastApi.raises /\ ~Unreadable(lastApi)

\* C14: chat_completion never raises to its caller.  When create raises or
\* the reading of its response raises, it returns None and create has been
\* invoked exactly once; create is never invoked twice.  When the call
\* succeeds the result is an LLMResponse with the stripped content of the
\* first choice, the model, the token count and the first choice's finish
\* reason.  simple_prompt returns None exactly when chat_completion
\* returned None and otherwise the content of that response.
C14_ChatCompletion ==
    lastCall # "none" =>
        /\ chatRaised = "none"
        /\ apiCalls <= 1
        /\ CallFailed => chatResult = None /\ apiCalls = 1
        /\ CallSucceeded =>
              /\ apiCalls = 1
              /\ chatResult # None
              /\ chatResult[1].content = Strip(lastApi.choices[1].content[1])
              /\ chatResult[1].content = <<>> \/
                    (~IsSpace(Head(chatResult[1].content))
                        /\ ~IsSpace(chatResult[1].content[Len(chatResult[1].content)]))
              /\ chatResult[1].model = lastApi.model
              /\ chatResult[1].tokens_used = lastApi.usage[1]
              /\ chatResult[1].finish_reason = lastApi.choices[1].finish_reason
        /\ lastCall = "prompt" =>
              /\ promptResult = None <=> chatResult = None
              /\ chatResult # None => promptResult = Some(chatResult[1].content)

\* C14 witness: simple_prompt returned None after create raised on its one
\* invocation
C14_Witness ==
    /\ lastCall = "prompt"
    /\ lastKw = "extra"
    /\ lastApi.raises
    /\ apiCalls = 1
    /\ chatResult = None
    /\ promptResult = None

\* A key that is given: not None and not the empty string
Given(k) == k # None /\ k[1] # ""

\* The key the claim names: the explicit one when given, else the
\* environment's
Chosen == IF Given(argKey) THEN argKey ELSE envKey

====
